---------------------------- MODULE Spec2Model ----------------------------
(* Contact Form API (src/main.py): POST /api/contact validates a          *)
(* submission, sends a notification email to the fixed recipient and     *)
(* then a confirmation email to the submitter.  Each request is a        *)
(* coroutine that suspends at the two `await aiosmtplib.send(...)`       *)
(* calls; everything between two suspension points runs atomically.      *)
EXTENDS Integers, Sequences, FiniteSets, TLC

(***************************************************************************)
(* Bounds                                                                  *)
(***************************************************************************)
NumReqs == 2

Reqs == 1..NumReqs

(***************************************************************************)
(* Values                                                                  *)
(***************************************************************************)
\* os.getenv(name) is None when the variable is unset, else its string.
None == [set |-> FALSE, val |-> <<>>]

Str(s) == [set |-> TRUE, val |-> s]

\* Python truthiness of an Optional[str]: None and "" are falsy.
Truthy(v) == v.set /\ v.val # <<>>

\* Addresses and environment strings are sequences of characters, so that
\* emptiness and email syntax are computed.
OwnerEmail == <<"m","e","@","x",".","y">>

EnvValues == {None, Str(<<>>), Str(OwnerEmail)}

AdaEmail == <<"a","d","a","@","e","x","a","m","p","l","e",".","c","o","m">>

NotAnEmail == <<"n","o","t","-","a","n","-","e","m","a","i","l">>

NoDotEmail == <<"a","d","a","@","l","o","c","a","l","h","o","s","t">>

TwoAtEmail == <<"a","@","b","@","c",".","d">>

EmptyEmail == <<>>

BobEmail == <<"b","o","b","@","c",".","d">>

BadEmails == {NotAnEmail, NoDotEmail, TwoAtEmail, EmptyEmail}

RequiredFields == {"name", "email", "subject", "message"}

Fields == RequiredFields \cup {"company"}

TextFields == {"name", "subject", "message"}

\* The concrete scenario of the specification.
AdaBody ==
    [name |-> "Ada", email |-> AdaEmail, company |-> "",
     subject |-> "Hello", message |-> "Hi there"]

Without(b, f) == [g \in (DOMAIN b) \ {f} |-> b[g]]

BobBody ==
    [name |-> "Bob", email |-> BobEmail, company |-> "Acme",
     subject |-> "Quote", message |-> "Call me"]

\* Request bodies: two valid ones and the one-field variations of the first.
Bodies ==
    {AdaBody, BobBody}
      \cup {Without(AdaBody, f) : f \in Fields}
      \cup {[AdaBody EXCEPT ![f] = ""] : f \in TextFields}
      \cup {[AdaBody EXCEPT !.email = e] : e \in BadEmails}

(***************************************************************************)
(* ContactForm (pydantic model): validation and defaults                   *)
(***************************************************************************)
Positions(s, c) == {i \in 1..Len(s) : s[i] = c}

\* EmailStr: one "@", a non-empty local part, a dotted domain whose labels
\* are non-empty, no whitespace.
EmailStr(e) ==
    LET ats == Positions(e, "@")
        dots == Positions(e, ".")
    IN  /\ Cardinality(ats) = 1
        /\ LET at == CHOOSE i \in ats : TRUE
           IN  /\ at > 1
               /\ at < Len(e)
               /\ \E d \in dots : d > at
               /\ \A d \in dots :
                     /\ d # 1 /\ d # Len(e)
                     /\ d - 1 \notin dots \cup ats
                     /\ d + 1 \notin dots \cup ats
        /\ Positions(e, " ") = {}

\* Variant: email declared `str` instead of `EmailStr`.
ValidationErrors_EmailAsStr(b) == {f \in RequiredFields : f \notin DOMAIN b}

\* The fields whose validation fails: a required field that is absent, or
\* an email that is not an address.  `str` accepts every string, also "".
ValidationErrors(b) ==
    {f \in RequiredFields : f \notin DOMAIN b}
      \cup {f \in {"email"} : f \in DOMAIN b /\ ~EmailStr(b[f])}

\* The validated model: company defaults to "".
ContactForm(b) ==
    [name |-> b.name, email |-> b.email,
     company |-> IF "company" \in DOMAIN b THEN b.company ELSE "",
     subject |-> b.subject, message |-> b.message]

NoForm == [name |-> "", email |-> <<>>, company |-> "", subject |-> "", message |-> ""]

(***************************************************************************)
(* Exceptions, function completions and HTTP responses                     *)
(***************************************************************************)
ConfigDetail == "Email configuration is incomplete. Check your environment variables."

NotificationDetail == "Failed to send notification email. Please try again."

UnexpectedDetail == "An unexpected error occurred. Please try again later."

SuccessMessage == "Your message has been sent successfully!"

HTTPException(status_code, detail) ==
    [cls |-> "HTTPException", status_code |-> status_code, detail |-> detail]

\* An exception raised by the mail transport.
TransportError(cls) == [cls |-> cls, status_code |-> 0, detail |-> ""]

\* What `await aiosmtplib.send(...)` can do: return, or raise one of these.
TransportErrors == {"SMTPException", "OSError"}

SendOutcomes == {"ok"} \cup TransportErrors

\* The classes that `except Exception` catches; HTTPException is one.
ExceptionSubclasses == {"HTTPException"} \cup TransportErrors

Return(v) == [kind |-> "return", value |-> v]

Raise(e) == [kind |-> "raise", exc |-> e]

\* The coroutine suspends in aiosmtplib.send with this message.
Await(message) == [kind |-> "await", message |-> message]

\* The framework's answer to a body that fails validation.
RequestValidationError(b) ==
    [status |-> 422, content |-> [detail |-> ValidationErrors(b)]]

\* The framework's answer to an HTTPException leaving the handler.
http_exception_handler(exc) ==
    [status |-> exc.status_code, content |-> [detail |-> exc.detail]]

\* The framework's answer to a returned dict.
JSONResponse(content) == [status |-> 200, content |-> content]

VARIABLES
    EMAIL_CONFIG,     \* module global: username and password from the environment
    RECIPIENT_EMAIL,  \* module global: the fixed recipient
    pc,               \* per request: idle, notification, confirmation, done
    body,             \* per request: the JSON body received
    form_data,        \* per request: the validated ContactForm of the handler
    attempts,         \* per request: the messages handed to aiosmtplib.send
    inflight,         \* per request: the sends started and not yet completed
    outcomes,         \* per request: what each completed send did
    results,          \* per request: notification_sent, confirmation_sent
    responses         \* per request: the HTTP responses issued

vars == <<EMAIL_CONFIG, RECIPIENT_EMAIL, pc, body, form_data, attempts,
          inflight, outcomes, results, responses>>

Init ==
    /\ EMAIL_CONFIG \in [username : EnvValues, password : EnvValues]
    /\ RECIPIENT_EMAIL \in EnvValues
    /\ pc = [r \in Reqs |-> "idle"]
    /\ body = [r \in Reqs |-> <<>>]
    /\ form_data = [r \in Reqs |-> NoForm]
    /\ attempts = [r \in Reqs |-> <<>>]
    /\ inflight = [r \in Reqs |-> {}]
    /\ outcomes = [r \in Reqs |-> <<>>]
    /\ results = [r \in Reqs |-> <<>>]
    /\ responses = [r \in Reqs |-> <<>>]

(***************************************************************************)
(* send_notification_email                                                 *)
(***************************************************************************)
\* Variant: the configuration check leaves out RECIPIENT_EMAIL.
ConfigComplete_NoRecipient ==
    /\ Truthy(EMAIL_CONFIG.username)
    /\ Truthy(EMAIL_CONFIG.password)

\* all([EMAIL_CONFIG["username"], EMAIL_CONFIG["password"], RECIPIENT_EMAIL])
ConfigComplete ==
    /\ Truthy(EMAIL_CONFIG.username)
    /\ Truthy(EMAIL_CONFIG.password)
    /\ Truthy(RECIPIENT_EMAIL)

NotificationMessage(fd) ==
    [kind |-> "notification",
     From |-> EMAIL_CONFIG.username.val,
     To |-> RECIPIENT_EMAIL.val,
     ReplyTo |-> fd.email,
     Subject |-> <<"New Contact Form: ", fd.subject>>]

\* Up to the await: the configuration check raises outside the try block.
send_notification_email_begin(fd) ==
    IF ~ConfigComplete
    THEN Raise(HTTPException(500, ConfigDetail))
    ELSE Await(NotificationMessage(fd))

\* From the await on: True, or False for every exception that is caught.
send_notification_email_end(outcome) ==
    IF outcome = "ok" THEN Return(TRUE)
    ELSE IF outcome \in ExceptionSubclasses THEN Return(FALSE)
    ELSE Raise(TransportError(outcome))

(***************************************************************************)
(* send_confirmation_email                                                 *)
(***************************************************************************)
\* Variant: the submission is kept in a module global that the first request
\* sets, and the confirmation is addressed from it.
ConfirmationMessage_Shared(fd) ==
    LET first == CHOOSE q \in Reqs :
                    /\ form_data[q] # NoForm
                    /\ \A p \in Reqs : p < q => form_data[p] = NoForm
    IN  [kind |-> "confirmation",
         From |-> EMAIL_CONFIG.username.val,
         To |-> form_data[first].email,
         ReplyTo |-> <<>>,
         Subject |-> <<"Thanks for reaching out!">>]

ConfirmationMessage(fd) ==
    [kind |-> "confirmation",
     From |-> EMAIL_CONFIG.username.val,
     To |-> fd.email,
     ReplyTo |-> <<>>,
     Subject |-> <<"Thanks for reaching out!">>]

\* Up to the await: no configuration check here.
send_confirmation_email_begin(fd) == Await(ConfirmationMessage(fd))

\* Variant: send_confirmation_email without its try/except.
send_confirmation_email_end_NoTry(outcome) ==
    IF outcome = "ok" THEN Return(TRUE) ELSE Raise(TransportError(outcome))

\* Variant: send_confirmation_email without `return True` (None is falsy).
send_confirmation_email_end_NoReturn(outcome) == Return(FALSE)

send_confirmation_email_end(outcome) ==
    IF outcome = "ok" THEN Return(TRUE)
    ELSE IF outcome \in ExceptionSubclasses THEN Return(FALSE)
    ELSE Raise(TransportError(outcome))

(***************************************************************************)
(* submit_contact_form                                                     *)
(***************************************************************************)
\* except Exception as e: raise HTTPException(500, "An unexpected error ...")
ExceptHandler(exc) ==
    IF exc.cls \in ExceptionSubclasses
    THEN HTTPException(500, UnexpectedDetail)
    ELSE exc

\* Variant: the handler does not look at notification_sent.
AfterNotification_NoCheck(fd, notification_sent) ==
    send_confirmation_email_begin(fd)

\* Variant: the handler sends the notification again when it failed.
AfterNotification_Retry(fd, notification_sent) ==
    IF ~notification_sent
    THEN send_notification_email_begin(fd)
    ELSE send_confirmation_email_begin(fd)

\* After send_notification_email returned: raise inside the try block when
\* it returned False, else go on to send_confirmation_email.
AfterNotification(fd, notification_sent) ==
    IF ~notification_sent
    THEN Raise(HTTPException(500, NotificationDetail))
    ELSE send_confirmation_email_begin(fd)

\* The dict the handler returns.
SuccessContent(notification_sent, confirmation_sent) ==
    [success |-> TRUE,
     message |-> SuccessMessage,
     details |-> [notification_sent |-> notification_sent,
                  confirmation_sent |-> confirmation_sent]]

\* The request ends with this response; the sends in `done` have completed.
Respond(r, done, resp) ==
    /\ responses' = [responses EXCEPT ![r] = Append(@, resp)]
    /\ inflight' = [inflight EXCEPT ![r] = @ \ done]
    /\ pc' = [pc EXCEPT ![r] = "done"]
    /\ UNCHANGED attempts

\* An exception raised inside the try block of submit_contact_form.
Fail(r, done, exc) == Respond(r, done, http_exception_handler(ExceptHandler(exc)))

\* Variant: the send runs as a background task and the handler answers
\* without awaiting it.
StartSend_NoAwait(r, done, message) ==
    /\ attempts' = [attempts EXCEPT ![r] = Append(@, message)]
    /\ inflight' = [inflight EXCEPT ![r] = (@ \ done) \cup {message.kind}]
    /\ pc' = [pc EXCEPT ![r] = message.kind]
    /\ responses' = [responses EXCEPT ![r] =
                        Append(@, [status |-> 200, content |-> [success |-> TRUE]])]

\* await aiosmtplib.send(message, ...): the request suspends until the send
\* completes; the sends in `done` have completed.
StartSend(r, done, message) ==
    /\ attempts' = [attempts EXCEPT ![r] = Append(@, message)]
    /\ inflight' = [inflight EXCEPT ![r] = (@ \ done) \cup {message.kind}]
    /\ pc' = [pc EXCEPT ![r] = message.kind]
    /\ UNCHANGED responses

\* POST /api/contact arrives: validation, then the handler up to its first
\* suspension point.
Receive(r) ==
    /\ pc[r] = "idle"
    /\ \E b \in Bodies :
        /\ body' = [body EXCEPT ![r] = b]
        /\ IF ValidationErrors(b) # {}
           THEN /\ Respond(r, {}, RequestValidationError(b))
                /\ UNCHANGED form_data
           ELSE LET fd == ContactForm(b)
                    c == send_notification_email_begin(fd)
                IN  /\ form_data' = [form_data EXCEPT ![r] = fd]
                    /\ IF c.kind = "raise"
                       THEN Fail(r, {}, c.exc)
                       ELSE StartSend(r, {}, c.message)
    /\ UNCHANGED <<EMAIL_CONFIG, RECIPIENT_EMAIL, outcomes, results>>

\* The notification send completes; the handler runs on to the confirmation
\* send or to its response.
NotificationDone(r) ==
    /\ pc[r] = "notification"
    /\ \E outcome \in SendOutcomes :
        LET c == send_notification_email_end(outcome)
        IN  /\ outcomes' = [outcomes EXCEPT ![r] = Append(@, outcome)]
            /\ IF c.kind = "raise"
               THEN /\ Fail(r, {"notification"}, c.exc)
                    /\ UNCHANGED results
               ELSE LET n == AfterNotification(form_data[r], c.value)
                    IN  /\ results' = [results EXCEPT ![r] = Append(@, c.value)]
                        /\ IF n.kind = "raise"
                           THEN Fail(r, {"notification"}, n.exc)
                           ELSE StartSend(r, {"notification"}, n.message)
    /\ UNCHANGED <<EMAIL_CONFIG, RECIPIENT_EMAIL, body, form_data>>

\* The confirmation send completes; the handler returns its dict.
ConfirmationDone(r) ==
    /\ pc[r] = "confirmation"
    /\ \E outcome \in SendOutcomes :
        LET c == send_confirmation_email_end(outcome)
        IN  /\ outcomes' = [outcomes EXCEPT ![r] = Append(@, outcome)]
            /\ IF c.kind = "raise"
               THEN /\ Fail(r, {"confirmation"}, c.exc)
                    /\ UNCHANGED results
               ELSE /\ results' = [results EXCEPT ![r] = Append(@, c.value)]
                    /\ Respond(r, {"confirmation"},
                               JSONResponse(SuccessContent(results[r][1], c.value)))
    /\ UNCHANGED <<EMAIL_CONFIG, RECIPIENT_EMAIL, body, form_data>>

Next == \E r \in Reqs : Receive(r) \/ NotificationDone(r) \/ ConfirmationDone(r)

Spec == Init /\ [][Next]_vars

\* Every started send eventually completes: the event loop resumes the
\* coroutine when aiosmtplib.send returns or raises.
FairSpec ==
    /\ Spec
    /\ \A r \in Reqs : WF_vars(NotificationDone(r)) /\ WF_vars(ConfirmationDone(r))
(***************************************************************************)
(* Vocabulary of the properties                                            *)
(***************************************************************************)
\* The bodies that are well-formed, told by enumeration rather than by the
\* validator: every required field present and an address as email.
WellFormedBodies ==
    {b \in Bodies : RequiredFields \subseteq DOMAIN b /\ b.email \in {AdaEmail, BobEmail}}

Received(r) == pc[r] # "idle"

Kinds(r) == [i \in 1..Len(attempts[r]) |-> attempts[r][i].kind]

Falsy(v) == v = None \/ v = Str(<<>>)

\* Exactly one of username, password and recipient is absent or empty.
OneMissing ==
    \/ Falsy(EMAIL_CONFIG.username) /\ ~Falsy(EMAIL_CONFIG.password) /\ ~Falsy(RECIPIENT_EMAIL)
    \/ ~Falsy(EMAIL_CONFIG.username) /\ Falsy(EMAIL_CONFIG.password) /\ ~Falsy(RECIPIENT_EMAIL)
    \/ ~Falsy(EMAIL_CONFIG.username) /\ ~Falsy(EMAIL_CONFIG.password) /\ Falsy(RECIPIENT_EMAIL)

AllPresent ==
    ~Falsy(EMAIL_CONFIG.username) /\ ~Falsy(EMAIL_CONFIG.password) /\ ~Falsy(RECIPIENT_EMAIL)

NotificationFailed(r) == Len(outcomes[r]) >= 1 /\ outcomes[r][1] # "ok"

ServerError(resp) == resp.status >= 500 /\ resp.status <= 599

ClientError(resp) == resp.status >= 400 /\ resp.status <= 499

(***************************************************************************)
(* C1                                                                      *)
(***************************************************************************)
\* C1: for a validated submission with complete configuration, when the
\* notification send fails with a mail-transport error, the request is
\* answered with HTTP 500 and no confirmation send is attempted for it.
C1_NotificationFailureIs500 ==
    \A r \in Reqs :
        (body[r] \in WellFormedBodies /\ AllPresent /\ NotificationFailed(r)) =>
            /\ Len(responses[r]) = 1
            /\ responses[r][1].status = 500
            /\ Kinds(r) = <<"notification">>
            /\ inflight[r] = {}

C1_Witness ==
    \E r \in Reqs :
        /\ body[r] \in WellFormedBodies /\ AllPresent
        /\ outcomes[r] = <<"SMTPException">>
        /\ Len(responses[r]) = 1

(***************************************************************************)
(* C2                                                                      *)
(***************************************************************************)
\* C2 as stated: with exactly one of username, password, recipient absent
\* or empty, every request is answered with a server error and makes no
\* send attempt.
C2_Original ==
    \A r \in Reqs :
        (OneMissing /\ Received(r)) =>
            /\ Len(responses[r]) = 1
            /\ ServerError(responses[r][1])
            /\ attempts[r] = <<>>
            /\ inflight[r] = {}

\* C2 (amended): with exactly one of username, password, recipient absent
\* or empty, no request makes a send attempt, and every request whose
\* submission passes validation is answered with a server error (a
\* malformed submission is still answered with the validation error).
C2_MissingConfigNoSends ==
    \A r \in Reqs :
        (OneMissing /\ Received(r)) =>
            /\ Len(responses[r]) = 1
            /\ attempts[r] = <<>>
            /\ inflight[r] = {}
            /\ outcomes[r] = <<>>
            /\ body[r] \in WellFormedBodies => responses[r][1].status = 500

C2_Witness ==
    /\ Falsy(RECIPIENT_EMAIL) /\ ~Falsy(EMAIL_CONFIG.username) /\ ~Falsy(EMAIL_CONFIG.password)
    /\ \E r \in Reqs : body[r] = AdaBody /\ Len(responses[r]) = 1

(***************************************************************************)
(* C3                                                                      *)
(***************************************************************************)
\* C3: for a validated submission with complete configuration, when the
\* notification send succeeds and the confirmation send fails, the response
\* is the success response with notification_sent true and
\* confirmation_sent false, never an error.
C3_ConfirmationFailureIsSuccess ==
    \A r \in Reqs :
        (/\ body[r] \in WellFormedBodies /\ AllPresent
         /\ Len(outcomes[r]) = 2 /\ outcomes[r][1] = "ok" /\ outcomes[r][2] # "ok") =>
            /\ Len(responses[r]) = 1
            /\ responses[r][1].status = 200
            /\ responses[r][1].content.success = TRUE
            /\ responses[r][1].content.details.notification_sent = TRUE
            /\ responses[r][1].content.details.confirmation_sent = FALSE

C3_Witness ==
    \E r \in Reqs :
        /\ outcomes[r] = <<"ok", "OSError">>
        /\ Len(responses[r]) = 1

(***************************************************************************)
(* C4                                                                      *)
(***************************************************************************)
\* C4: for a valid submission with complete configuration, when both sends
\* succeed the response is HTTP 200 with success true, the message "Your
\* message has been sent successfully!" and both flags true.
C4_FullSuccess ==
    \A r \in Reqs :
        (body[r] \in WellFormedBodies /\ AllPresent /\ outcomes[r] = <<"ok", "ok">>) =>
            responses[r] =
                <<[status |-> 200,
                   content |-> [success |-> TRUE,
                                message |-> "Your message has been sent successfully!",
                                details |-> [notification_sent |-> TRUE,
                                             confirmation_sent |-> TRUE]]]>>

C4_Witness ==
    \E r \in Reqs : body[r] = AdaBody /\ outcomes[r] = <<"ok", "ok">> /\ Len(responses[r]) = 1

(***************************************************************************)
(* C5                                                                      *)
(***************************************************************************)
\* C5: the HTTP 500 responses carry a detail message per cause: incomplete
\* configuration gets the "configuration incomplete" message, a failed
\* notification send gets the "failed to send notification" message, and
\* only other failures get the generic "unexpected error" message.
C5_DistinctDetails ==
    \A r \in Reqs :
        (body[r] \in WellFormedBodies /\ Len(responses[r]) = 1
            /\ responses[r][1].status = 500) =>
            /\ ~AllPresent =>
                 responses[r][1].content.detail =
                    "Email configuration is incomplete. Check your environment variables."
            /\ (AllPresent /\ NotificationFailed(r)) =>
                 responses[r][1].content.detail =
                    "Failed to send notification email. Please try again."

(***************************************************************************)
(* C6                                                                      *)
(***************************************************************************)
Malformed(b) ==
    \/ "email" \in DOMAIN b /\ b.email \in BadEmails
    \/ \E f \in TextFields : f \notin DOMAIN b

\* C6: a submission whose email is not an email address, or that lacks
\* name, subject or message, is rejected with a client-error response
\* before the handler runs, and no send is attempted for it.
C6_MalformedRejected ==
    \A r \in Reqs :
        (Received(r) /\ Malformed(body[r])) =>
            /\ Len(responses[r]) = 1
            /\ ClientError(responses[r][1])
            /\ form_data[r] = NoForm
            /\ attempts[r] = <<>>
            /\ inflight[r] = {}
            /\ outcomes[r] = <<>>

C6_Witness ==
    /\ AllPresent
    /\ \E r \in Reqs :
        /\ body[r] = [AdaBody EXCEPT !.email = NotAnEmail]
        /\ Len(responses[r]) = 1

(***************************************************************************)
(* C7                                                                      *)
(***************************************************************************)
\* C7: a submission in which name, subject or message is the empty string
\* is rejected as a validation error and no send is attempted for it
\* (stated where the configuration is complete, so that a send is possible).
C7_EmptyTextRejected ==
    \A r \in Reqs :
        (/\ AllPresent /\ Received(r)
         /\ \E f \in TextFields : f \in DOMAIN body[r] /\ body[r][f] = "") =>
            /\ attempts[r] = <<>>
            /\ Len(responses[r]) = 1
            /\ ClientError(responses[r][1])

(***************************************************************************)
(* C8                                                                      *)
(***************************************************************************)
\* C8: within a request the sends are sequential and never retried: the
\* attempts are <<>>, <<notification>> or <<notification, confirmation>>,
\* at most one send is in flight, and the confirmation send is started
\* only once the notification send has completed.
C8_SequentialNoRetry ==
    \A r \in Reqs :
        /\ Kinds(r) \in {<<>>, <<"notification">>, <<"notification", "confirmation">>}
        /\ Cardinality(inflight[r]) <= 1
        /\ Len(attempts[r]) = Len(outcomes[r]) + Cardinality(inflight[r])
        /\ Len(attempts[r]) = 2 =>
              /\ Len(outcomes[r]) >= 1
              /\ "notification" \notin inflight[r]

C8_Witness ==
    \E r \in Reqs :
        /\ Kinds(r) = <<"notification", "confirmation">>
        /\ inflight[r] = {"confirmation"}
        /\ \E q \in Reqs : outcomes[q] = <<"OSError">>

(***************************************************************************)
(* C9                                                                      *)
(***************************************************************************)
\* The response a request is owed by its own submission, the configuration
\* and the outcomes of its own sends.
OwnResponses(b, complete, outs) ==
    IF b \notin WellFormedBodies THEN <<422>>
    ELSE IF ~complete THEN <<500>>
    ELSE IF outs = <<>> THEN <<>>
    ELSE IF outs[1] # "ok" THEN <<500>>
    ELSE IF Len(outs) = 1 THEN <<>>
    ELSE <<[notification_sent |-> TRUE, confirmation_sent |-> outs[2] = "ok"]>>

Answer(resp) == IF resp.status = 200 THEN resp.content.details ELSE resp.status

\* The recipients a request's sends are owed by its own submission.
OwnRecipients(b, n) ==
    [i \in 1..n |-> IF i = 1 THEN <<OwnerEmail, b.email>> ELSE <<b.email, <<>> >>]

C9_Own(r) ==
    /\ [i \in 1..Len(responses[r]) |-> Answer(responses[r][i])]
         = OwnResponses(body[r], AllPresent, outcomes[r])
    /\ [i \in 1..Len(attempts[r]) |-> <<attempts[r][i].To, attempts[r][i].ReplyTo>>]
         = OwnRecipients(body[r], Len(attempts[r]))

Local(r) ==
    <<pc[r], body[r], form_data[r], attempts[r], inflight[r], outcomes[r],
      results[r], responses[r]>>

\* C9: concurrent requests are isolated: every step leaves the
\* configuration unwritten and changes the state of one request only, and
\* in every interleaving a request's response and send attempts are the
\* ones owed by its own submission, the configuration and its own sends.
C9_Isolation ==
    [][/\ EMAIL_CONFIG' = EMAIL_CONFIG
       /\ RECIPIENT_EMAIL' = RECIPIENT_EMAIL
       /\ \E r \in Reqs : \A q \in Reqs \ {r} : Local(q)' = Local(q)
       /\ \A r \in Reqs : Received(r)' => C9_Own(r)']_vars

C9_Witness ==
    \E r, q \in Reqs :
        /\ body[r] = AdaBody /\ body[q] = BobBody
        /\ Len(attempts[r]) = 2 /\ Len(attempts[q]) = 2
        /\ outcomes[r] = <<"ok">> /\ outcomes[q] = <<"ok", "SMTPException">>

(***************************************************************************)
(* C10                                                                     *)
(***************************************************************************)
\* C10: a request stays pending while a send it started is in flight, it
\* never has more than one response, and, every started send eventually
\* completing, every request received eventually has exactly one response.
C10_PendingThenAnswered ==
    /\ [](\A r \in Reqs :
            /\ inflight[r] # {} => responses[r] = <<>>
            /\ Len(responses[r]) <= 1
            /\ pc[r] \in {"notification", "confirmation"} => inflight[r] = {pc[r]})
    /\ \A r \in Reqs : Received(r) ~> (Len(responses[r]) = 1 /\ inflight[r] = {})

C10_Witness ==
    \E r \in Reqs :
        /\ Len(attempts[r]) = 2 /\ Len(outcomes[r]) = 2
        /\ Len(responses[r]) = 1
        /\ \E q \in Reqs : inflight[q] = {"notification"} /\ responses[q] = <<>>
=============================================================================
